---- MODULE Spec2Model ----
(***************************************************************************)
(* The webhook exclusion rule engine of the admission pipeline:            *)
(*   exclusionrules.CriticalPathExcluder (readFile, filterValidRules,      *)
(*   ShouldSkipWebhookDueToExclusionRules) and exclusionrules.Matcher.     *)
(*                                                                         *)
(* Go values are modelled as follows.                                      *)
(*   string            a TLA+ string                                       *)
(*   []T               a sequence                                          *)
(*   *v1.ScopeType     a sequence of length 0 (nil) or 1 (the pointee)     *)
(*   struct            a record with the Go field names                    *)
(*   JSON object       a record whose DOMAIN is the set of keys present    *)
(***************************************************************************)
EXTENDS Naturals, Sequences, FiniteSets

VARIABLES
    env,                    \* os environment: is EKS_PATCH_EXCLUSION_RULES_FILE set
    file,                   \* the file the variable names: [state, doc]
    once,                   \* the one-time guard: has construction run
    loadedFrom,             \* history: <<[env, file]>> as the last construction found them
    exclusionRulesFromFile, \* what readFile returned to the last construction
    exclusionRules,         \* CriticalPathExcluder.exclusionRules
    call,                   \* the last ShouldSkip call: <<>> or <<[attr, result]>>
    mu,                     \* the guard's mutex: the goroutine that holds it, or NoCaller
    pc,                     \* where each goroutine is in its first use of the engine
    local                   \* each goroutine's local variables

vars == <<env, file, once, loadedFrom, exclusionRulesFromFile, exclusionRules, call,
          mu, pc, local>>

----------------------------------------------------------------------------
(* admissionregistration/v1 ScopeType tokens, as the engine compares them. *)

ClusterScope == "Cluster"
NamespacedScope == "Namespaced"
AllScopes == "*"

\* A nil *v1.ScopeType, and a pointer to the token s.
NilScope == <<>>
ScopeOf(s) == <<s>>

\* var namespaceResource = schema.GroupVersionResource{"", "v1", "namespaces"}
namespaceResource == [Group |-> "", Version |-> "v1", Resource |-> "namespaces"]

\* metav1.NamespaceNone
NamespaceNone == ""

----------------------------------------------------------------------------
(* exclusionrules.Matcher                                                  *)
(* A Matcher m is [ExclusionRule |-> rule, Attr |-> attributes]; the       *)
(* attributes carry what GetName, GetNamespace, GetResource and GetKind    *)
(* return.                                                                 *)

RECURSIVE exactOrWildcardFrom(_, _, _)
exactOrWildcardFrom(items, requested, i) ==
    IF i > Len(items) THEN FALSE
    ELSE IF items[i] = "*" THEN TRUE
    ELSE IF items[i] = requested THEN TRUE
    ELSE exactOrWildcardFrom(items, requested, i + 1)

\* Mutant: the wildcard counts only when it is the whole list.
exactOrWildcardAlone(items, requested) ==
    \/ items = <<"*">>
    \/ \E j \in 1..Len(items) : items[j] = requested

\* Mutant: the loop falls through to `return true`.
RECURSIVE exactOrWildcardFallsTrue(_, _)
exactOrWildcardFallsTrue(items, requested) ==
    IF items = <<>> THEN TRUE
    ELSE IF Head(items) = "*" THEN TRUE
    ELSE IF Head(items) = requested THEN TRUE
    ELSE exactOrWildcardFallsTrue(Tail(items), requested)

exactOrWildcard(items, requested) == exactOrWildcardFrom(items, requested, 1)

\* Mutant: the Namespaced case looks at the namespace only.
scopeNamespaceOnly(m) ==
    IF m.ExclusionRule.Scope = NilScope \/ m.ExclusionRule.Scope[1] = AllScopes
    THEN FALSE
    ELSE IF m.ExclusionRule.Scope[1] = NamespacedScope
         THEN m.Attr.Namespace # NamespaceNone
    ELSE IF m.ExclusionRule.Scope[1] = ClusterScope
         THEN m.Attr.Resource = namespaceResource \/ m.Attr.Namespace = NamespaceNone
    ELSE FALSE

scope(m) ==
    IF m.ExclusionRule.Scope = NilScope \/ m.ExclusionRule.Scope[1] = AllScopes
    THEN FALSE
    ELSE IF m.ExclusionRule.Scope[1] = NamespacedScope
         THEN m.Attr.Resource # namespaceResource /\ m.Attr.Namespace # NamespaceNone
    ELSE IF m.ExclusionRule.Scope[1] = ClusterScope
         THEN m.Attr.Resource = namespaceResource \/ m.Attr.Namespace = NamespaceNone
    ELSE FALSE

\* Mutant: an empty APIGroup is taken to stand for every group.
groupOrCore(m) ==
    \/ m.ExclusionRule.APIGroup = ""
    \/ m.ExclusionRule.APIGroup = m.Attr.Resource.Group

group(m) == m.ExclusionRule.APIGroup = m.Attr.Resource.Group

\* Mutant: the wildcard is compared like any other name.
nameExactOnly(m) ==
    \E j \in 1..Len(m.ExclusionRule.Name) : m.ExclusionRule.Name[j] = m.Attr.Name

name(m) == exactOrWildcard(m.ExclusionRule.Name, m.Attr.Name)

\* Mutant: the namespace is not compared for requests on the namespaces
\* resource.
namespaceUnlessNamespaces(m) ==
    \/ m.Attr.Resource.Resource = "namespaces"
    \/ m.ExclusionRule.Namespace = m.Attr.Namespace

namespace(m) == m.ExclusionRule.Namespace = m.Attr.Namespace

version(m) == m.ExclusionRule.APIVersion = m.Attr.Resource.Version

kind(m) == m.ExclusionRule.Kind = m.Attr.Kind.Kind

\* Mutant: the namespace conjunct is left out as well.
MatchesWithoutNamespace(m) ==
    name(m) /\ group(m) /\ version(m) /\ kind(m)

\* Matches as written: scope(m) is not among the conjuncts.
Matches(m) ==
    name(m) /\ namespace(m) /\ group(m) /\ version(m) /\ kind(m)

Matcher(r, a) == [ExclusionRule |-> r, Attr |-> a]

----------------------------------------------------------------------------
(* exclusionrules.CriticalPathExcluder                                     *)

RECURSIVE containsFrom(_, _, _)
containsFrom(s, str, i) ==
    IF i > Len(s) THEN FALSE
    ELSE IF s[i] = str THEN TRUE
    ELSE containsFrom(s, str, i + 1)

contains(s, str) == containsFrom(s, str, 1)

\* Mutant: the namespace of the rule is not looked at.
isDisallowedNameWildcardAnyNamespace(rule) ==
    ~(/\ rule.APIGroup = "coordination.k8s.io"
      /\ rule.APIVersion = "v1"
      /\ rule.Kind = "Lease")

\* Mutant: the wildcard is allowed for a Lease of any group and namespace.
isDisallowedNameWildcardUnlessLease(rule) == ~(rule.Kind = "Lease")

isDisallowedNameWildcard(rule) ==
    ~(/\ rule.APIGroup = "coordination.k8s.io"
      /\ rule.APIVersion = "v1"
      /\ rule.Kind = "Lease"
      /\ rule.Namespace = "kube-node-lease")

\* Mutant: the scope is not compared with AllScopes.
RuleSkippedAllScopesPass(rule) ==
    IF rule.Scope = NilScope THEN TRUE
    ELSE IF \/ rule.APIGroup = "*"
            \/ rule.APIVersion = "*"
            \/ rule.Namespace = "*"
            \/ rule.Kind = "*"
         THEN TRUE
    ELSE IF contains(rule.Name, "*") /\ isDisallowedNameWildcard(rule) THEN TRUE
    ELSE IF rule.Scope[1] = ClusterScope /\ rule.Namespace # "" THEN TRUE
    ELSE IF rule.Scope[1] = NamespacedScope /\ rule.Namespace = "" THEN TRUE
    ELSE FALSE

\* Mutant: the namespace is not compared with the wildcard token.
RuleSkippedNamespaceWildcardPass(rule) ==
    IF rule.Scope = NilScope THEN TRUE
    ELSE IF \/ rule.Scope[1] = AllScopes
            \/ rule.APIGroup = "*"
            \/ rule.APIVersion = "*"
            \/ rule.Kind = "*"
         THEN TRUE
    ELSE IF contains(rule.Name, "*") /\ isDisallowedNameWildcard(rule) THEN TRUE
    ELSE IF rule.Scope[1] = ClusterScope /\ rule.Namespace # "" THEN TRUE
    ELSE IF rule.Scope[1] = NamespacedScope /\ rule.Namespace = "" THEN TRUE
    ELSE FALSE

\* Mutant: the Cluster scope check is missing.
RuleSkippedClusterNamespacePass(rule) ==
    IF rule.Scope = NilScope THEN TRUE
    ELSE IF \/ rule.Scope[1] = AllScopes
            \/ rule.APIGroup = "*"
            \/ rule.APIVersion = "*"
            \/ rule.Namespace = "*"
            \/ rule.Kind = "*"
         THEN TRUE
    ELSE IF contains(rule.Name, "*") /\ isDisallowedNameWildcard(rule) THEN TRUE
    ELSE IF rule.Scope[1] = NamespacedScope /\ rule.Namespace = "" THEN TRUE
    ELSE FALSE

\* The body of the loop of filterValidRules for one rule: TRUE when one of
\* the five checks hits `continue`, FALSE when the rule reaches the append.
RuleSkipped(rule) ==
    IF rule.Scope = NilScope THEN TRUE
    ELSE IF \/ rule.Scope[1] = AllScopes
            \/ rule.APIGroup = "*"
            \/ rule.APIVersion = "*"
            \/ rule.Namespace = "*"
            \/ rule.Kind = "*"
         THEN TRUE
    ELSE IF contains(rule.Name, "*") /\ isDisallowedNameWildcard(rule) THEN TRUE
    ELSE IF rule.Scope[1] = ClusterScope /\ rule.Namespace # "" THEN TRUE
    ELSE IF rule.Scope[1] = NamespacedScope /\ rule.Namespace = "" THEN TRUE
    ELSE FALSE

RECURSIVE filterValidRulesFrom(_, _, _)
filterValidRulesFrom(inputExclusionRules, i, filteredRules) ==
    IF i > Len(inputExclusionRules) THEN filteredRules
    ELSE IF RuleSkipped(inputExclusionRules[i])
         THEN filterValidRulesFrom(inputExclusionRules, i + 1, filteredRules)
    ELSE filterValidRulesFrom(inputExclusionRules, i + 1,
                              Append(filteredRules, inputExclusionRules[i]))

\* Mutant: the first rejected rule ends the loop (break for continue).
RECURSIVE filterValidRulesBreaks(_)
filterValidRulesBreaks(inputExclusionRules) ==
    IF inputExclusionRules = <<>> THEN <<>>
    ELSE IF RuleSkipped(Head(inputExclusionRules)) THEN <<>>
    ELSE <<Head(inputExclusionRules)>>
            \o filterValidRulesBreaks(Tail(inputExclusionRules))

\* Mutant: the loop starts at the second rule.
filterValidRulesSkipsFirst(inputExclusionRules) ==
    filterValidRulesFrom(inputExclusionRules, 2, <<>>)

filterValidRules(inputExclusionRules) ==
    filterValidRulesFrom(inputExclusionRules, 1, <<>>)

RECURSIVE ShouldSkipFrom(_, _, _)
ShouldSkipFrom(rules, attr, i) ==
    IF i > Len(rules) THEN FALSE
    ELSE IF Matches(Matcher(rules[i], attr)) THEN TRUE
    ELSE ShouldSkipFrom(rules, attr, i + 1)

\* Mutant: the loop returns false at the first rule that does not match.
RECURSIVE ShouldSkipStopsAtMismatch(_, _)
ShouldSkipStopsAtMismatch(rules, attr) ==
    IF rules = <<>> THEN FALSE
    ELSE IF ~Matches(Matcher(Head(rules), attr)) THEN FALSE
    ELSE TRUE

\* Mutant: the loop returns the first rule's answer.
ShouldSkipFirstRuleOnly(rules, attr) ==
    IF Len(rules) = 0 THEN FALSE
    ELSE Matches(Matcher(rules[1], attr))

ShouldSkipWebhookDueToExclusionRules(rules, attr) == ShouldSkipFrom(rules, attr, 1)

----------------------------------------------------------------------------
(* readFile: the configuration loader.                                     *)

\* Mutant: the Endpoints rule comes first and names the default namespace.
defaultExclusionOther ==
    << [APIGroup   |-> "",
        APIVersion |-> "v1",
        Kind       |-> "Endpoints",
        Namespace  |-> "default",
        Name       |-> <<"kube-controller-manager", "kube-scheduler">>,
        Scope      |-> ScopeOf(NamespacedScope)],
       [APIGroup   |-> "coordination.k8s.io",
        APIVersion |-> "v1",
        Kind       |-> "Lease",
        Namespace  |-> "kube-system",
        Name       |-> <<"kube-controller-manager", "kube-scheduler">>,
        Scope      |-> ScopeOf(NamespacedScope)] >>

defaultExclusion ==
    << [APIGroup   |-> "coordination.k8s.io",
        APIVersion |-> "v1",
        Kind       |-> "Lease",
        Namespace  |-> "kube-system",
        Name       |-> <<"kube-controller-manager", "kube-scheduler">>,
        Scope      |-> ScopeOf(NamespacedScope)],
       [APIGroup   |-> "",
        APIVersion |-> "v1",
        Kind       |-> "Endpoints",
        Namespace  |-> "kube-system",
        Name       |-> <<"kube-controller-manager", "kube-scheduler">>,
        Scope      |-> ScopeOf(NamespacedScope)] >>

\* encoding/json into a struct field tagged with key k: the value when the
\* key is present, the Go zero value of the field when it is absent.
JSONField(obj, k, zero) == IF k \in DOMAIN obj THEN obj[k] ELSE zero

\* json.Unmarshal of one array element into an ExclusionRule.
UnmarshalRule(obj) ==
    [APIGroup   |-> JSONField(obj, "apiGroup", ""),
     APIVersion |-> JSONField(obj, "apiVersion", ""),
     Name       |-> JSONField(obj, "name", <<>>),
     Kind       |-> JSONField(obj, "kind", ""),
     Namespace  |-> JSONField(obj, "namespace", ""),
     Scope      |-> IF "scope" \in DOMAIN obj THEN ScopeOf(obj["scope"]) ELSE NilScope]

\* json.Unmarshal(file, &data) with data := []ExclusionRule{}: a document is
\* [json |-> "garbage"] (not JSON: err # nil), [json |-> "null"] (data is
\* left without elements) or [json |-> "array", items |-> objects].
UnmarshalErr(doc) == doc.json = "garbage"

Unmarshal(doc) ==
    IF doc.json = "array"
    THEN [i \in 1..Len(doc.items) |-> UnmarshalRule(doc.items[i])]
    ELSE <<>>

\* os.ReadFile(fileLocation): err # nil unless the file is there and readable.
ReadFileErr(f) == f.state # "ok"

\* Mutant: on an error the (empty) data is returned, not the defaults.
readFileEmptyOnError(e, f) ==
    IF e = "set"
    THEN IF ReadFileErr(f) THEN <<>>
         ELSE IF UnmarshalErr(f.doc) THEN <<>>
         ELSE Unmarshal(f.doc)
    ELSE defaultExclusion

\* Mutant: the defaults follow the rules of the file.
readFileAppendsDefaults(e, f) ==
    IF e = "set"
    THEN IF ReadFileErr(f) THEN defaultExclusion
         ELSE IF UnmarshalErr(f.doc) THEN defaultExclusion
         ELSE Unmarshal(f.doc) \o defaultExclusion
    ELSE defaultExclusion

\* Mutant: the rules of the file are added to the defaults.
readFileMergesDefaults(e, f) ==
    IF e = "set"
    THEN IF ReadFileErr(f) THEN defaultExclusion
         ELSE IF UnmarshalErr(f.doc) THEN defaultExclusion
         ELSE defaultExclusion \o Unmarshal(f.doc)
    ELSE defaultExclusion

readFile(e, f) ==
    IF e = "set"
    THEN IF ReadFileErr(f) THEN defaultExclusion
         ELSE IF UnmarshalErr(f.doc) THEN defaultExclusion
         ELSE Unmarshal(f.doc)
    ELSE defaultExclusion

\* Mutant: when validation leaves no rule, the defaults are used.
NewCriticalPathExcluderFallsBack(e, f) ==
    IF filterValidRules(readFile(e, f)) = <<>>
    THEN defaultExclusion
    ELSE filterValidRules(readFile(e, f))

\* NewCriticalPathExcluder: the rule sequence of the Excluder it returns.
NewCriticalPathExcluder(e, f) == filterValidRules(readFile(e, f))

----------------------------------------------------------------------------
(* Inputs.                                                                 *)

MaxNames == 2   \* longest names list of an enumerated rule
MaxRules == 2   \* longest enumerated rule sequence

RECURSIVE SeqsUpTo(_, _)
SeqsUpTo(S, n) ==
    IF n = 0 THEN {<<>>}
    ELSE SeqsUpTo(S, n - 1) \cup [1..n -> S]

\* Request attributes.
AttrGroups == {"", "apps", "coordination.k8s.io"}
AttrVersions == {"v1", "v1beta1"}
AttrResources == {"leases", "endpoints", "deployments", "namespaces"}
AttrKinds == {"Lease", "Endpoints", "Deployment", "Namespace"}
AttrNamespaces == {"", "kube-system", "default", "kube-node-lease"}
AttrNames == {"kube-controller-manager", "kube-scheduler", "my-deploy", "default"}

Attributes ==
    { [Kind      |-> [Kind |-> k],
       Resource  |-> [Group |-> g, Version |-> v, Resource |-> res],
       Namespace |-> ns,
       Name      |-> n] :
      g \in AttrGroups, v \in AttrVersions, res \in AttrResources,
      k \in AttrKinds, ns \in AttrNamespaces, n \in AttrNames }

\* The resource the API server serves a kind under, and the requests whose
\* resource is the one of their kind.
ResourceOf(k) ==
    CASE k = "Lease" -> "leases"
      [] k = "Endpoints" -> "endpoints"
      [] k = "Deployment" -> "deployments"
      [] k = "Namespace" -> "namespaces"

ServedAttributes ==
    { a \in Attributes : a.Resource.Resource = ResourceOf(a.Kind.Kind) }

\* Configuration documents an operator may put in the file.
DeploymentObject ==
    [apiGroup |-> "apps", apiVersion |-> "v1", kind |-> "Deployment",
     namespace |-> "default", name |-> <<"my-deploy">>, scope |-> "Namespaced"]

NamespaceObject ==
    [apiGroup |-> "", apiVersion |-> "v1", kind |-> "Namespace",
     namespace |-> "default", name |-> <<"default">>, scope |-> "Namespaced"]

NodeLeaseObject ==
    [apiGroup |-> "coordination.k8s.io", apiVersion |-> "v1", kind |-> "Lease",
     namespace |-> "kube-node-lease", name |-> <<"*">>, scope |-> "Namespaced"]

WildcardDeploymentObject ==
    [apiGroup |-> "apps", apiVersion |-> "v1", kind |-> "Deployment",
     namespace |-> "default", name |-> <<"*">>, scope |-> "Namespaced"]

NoScopeObject ==
    [apiGroup |-> "coordination.k8s.io", apiVersion |-> "v1", kind |-> "Lease",
     namespace |-> "kube-system", name |-> <<"kube-scheduler">>]

ArrayDoc(objs) == [json |-> "array", items |-> objs]
GarbageDoc == [json |-> "garbage", items |-> <<>>]
NullDoc == [json |-> "null", items |-> <<>>]

ConfigDocs ==
    { GarbageDoc, ArrayDoc(<<>>),
      ArrayDoc(<<DeploymentObject>>),
      ArrayDoc(<<NamespaceObject>>),
      ArrayDoc(<<NoScopeObject>>),
      ArrayDoc(<<WildcardDeploymentObject, DeploymentObject>>),
      ArrayDoc(<<DeploymentObject, NodeLeaseObject>>) }

MissingFile == [state |-> "missing", doc |-> GarbageDoc]
UnreadableFile == [state |-> "unreadable", doc |-> GarbageDoc]
FileWith(d) == [state |-> "ok", doc |-> d]

NoCall == <<>>
NoCaller == 0

----------------------------------------------------------------------------
(* The engine in the API server process: Spec.                             *)

Init ==
    /\ env = "unset"
    /\ file = MissingFile
    /\ once = FALSE
    /\ loadedFrom = <<>>
    /\ exclusionRulesFromFile = <<>>
    /\ exclusionRules = <<>>
    /\ call = NoCall
    /\ mu = NoCaller
    /\ pc = <<>>
    /\ local = <<>>

\* os.Setenv(ADMISSION_WEBHOOK_EXCLUSION_ENV_VAR, exclusionRulesFile)
Setenv ==
    /\ call = NoCall
    /\ env = "unset"
    /\ env' = "set"
    /\ UNCHANGED <<file, once, loadedFrom, exclusionRulesFromFile, exclusionRules, call,
                   mu, pc, local>>

Unsetenv ==
    /\ call = NoCall
    /\ env = "set"
    /\ env' = "unset"
    /\ UNCHANGED <<file, once, loadedFrom, exclusionRulesFromFile, exclusionRules, call,
                   mu, pc, local>>

\* os.WriteFile(exclusionRulesFile, d, 0755)
WriteFile(d) ==
    /\ call = NoCall
    /\ file' = FileWith(d)
    /\ file' # file
    /\ UNCHANGED <<env, once, loadedFrom, exclusionRulesFromFile, exclusionRules, call,
                   mu, pc, local>>

\* os.Remove(exclusionRulesFile)
RemoveFile ==
    /\ call = NoCall
    /\ file.state # "missing"
    /\ file' = MissingFile
    /\ UNCHANGED <<env, once, loadedFrom, exclusionRulesFromFile, exclusionRules, call,
                   mu, pc, local>>

\* The file stays in place and reading it starts to fail (an I/O error).
BreakFile ==
    /\ call = NoCall
    /\ file.state = "ok"
    /\ file' = UnreadableFile
    /\ UNCHANGED <<env, once, loadedFrom, exclusionRulesFromFile, exclusionRules, call,
                   mu, pc, local>>

\* generic.LoadCriticalPathExcluder = new(sync.Once)
ResetOnce ==
    /\ call = NoCall
    /\ once
    /\ once' = FALSE
    /\ UNCHANGED <<env, file, loadedFrom, exclusionRulesFromFile, exclusionRules, call,
                   mu, pc, local>>

\* LoadCriticalPathExcluder.Do(... NewCriticalPathExcluder() ...)
Construct ==
    /\ call = NoCall
    /\ ~once
    /\ loadedFrom' = <<[env |-> env, file |-> file]>>
    /\ exclusionRulesFromFile' = readFile(env, file)
    /\ exclusionRules' = NewCriticalPathExcluder(env, file)
    /\ once' = TRUE
    /\ UNCHANGED <<env, file, call,
                   mu, pc, local>>

\* Mutant: every call builds the excluder anew from the environment.
ShouldSkipReloads(a) ==
    /\ call = NoCall
    /\ once
    /\ exclusionRules' = NewCriticalPathExcluder(env, file)
    /\ call' = << [attr   |-> a,
                   result |-> ShouldSkipWebhookDueToExclusionRules(exclusionRules', a)] >>
    /\ UNCHANGED <<env, file, once, loadedFrom, exclusionRulesFromFile, mu, pc, local>>

\* Mutant: a rule whose scope is unset halts the call (the scope is
\* dereferenced without the nil check), so that the call never returns.
ShouldSkipHaltsOnUnsetScope(a) ==
    /\ call = NoCall
    /\ once
    /\ \A i \in 1..Len(exclusionRules) : exclusionRules[i].Scope # NilScope
    /\ call' = << [attr   |-> a,
                   result |-> ShouldSkipWebhookDueToExclusionRules(exclusionRules, a)] >>
    /\ UNCHANGED <<env, file, once, loadedFrom, exclusionRulesFromFile, exclusionRules,
                   mu, pc, local>>

\* excludor.ShouldSkipWebhookDueToExclusionRules(a), called by the dispatcher.
ShouldSkip(a) ==
    /\ call = NoCall
    /\ once
    /\ call' = << [attr   |-> a,
                   result |-> ShouldSkipWebhookDueToExclusionRules(exclusionRules, a)] >>
    /\ UNCHANGED <<env, file, once, loadedFrom, exclusionRulesFromFile, exclusionRules,
                   mu, pc, local>>

\* The dispatcher has used the result.
Return ==
    /\ call # NoCall
    /\ call' = NoCall
    /\ UNCHANGED <<env, file, once, loadedFrom, exclusionRulesFromFile, exclusionRules,
                   mu, pc, local>>

Next ==
    \/ Setenv
    \/ Unsetenv
    \/ \E d \in ConfigDocs : WriteFile(d)
    \/ RemoveFile
    \/ BreakFile
    \/ ResetOnce
    \/ Construct
    \/ \E a \in ServedAttributes : ShouldSkip(a)
    \/ Return

Spec == Init /\ [][Next]_vars

----------------------------------------------------------------------------
(* filterValidRules on its own: SpecFilter.  The input is any one rule of  *)
(* RuleDomain, or any sequence of up to MaxRules rules of FilterPool.      *)

RuleGroups == {"", "coordination.k8s.io", "*"}
RuleVersions == {"", "v1", "*"}
RuleKinds == {"", "Lease", "Namespace", "*"}
RuleNamespaces == {"", "kube-system", "kube-node-lease", "*"}
NameTokens == {"*", "kube-scheduler"}
\* ScopeType is a string type: the decoder takes any token.
ScopeTokens == {ClusterScope, NamespacedScope, AllScopes, "namespaced"}
RuleScopes == {NilScope} \cup {ScopeOf(s) : s \in ScopeTokens}

Rule(g, v, k, ns, n, sc) ==
    [APIGroup |-> g, APIVersion |-> v, Kind |-> k, Namespace |-> ns,
     Name |-> n, Scope |-> sc]

RuleDomain ==
    { Rule(g, v, k, ns, n, sc) :
      g \in RuleGroups, v \in RuleVersions, k \in RuleKinds,
      ns \in RuleNamespaces, n \in SeqsUpTo(NameTokens, MaxNames),
      sc \in RuleScopes }

NodeLeaseRule == UnmarshalRule(NodeLeaseObject)
DeploymentRule == UnmarshalRule(DeploymentObject)
NamespaceRule == UnmarshalRule(NamespaceObject)
ClusterNamespaceRule ==
    Rule("", "v1", "Namespace", "", <<"default">>, ScopeOf(ClusterScope))

FilterPool ==
    { defaultExclusion[1],
      NodeLeaseRule,
      ClusterNamespaceRule,
      UnmarshalRule(NoScopeObject),
      UnmarshalRule(WildcardDeploymentObject),
      Rule("*", "v1", "Lease", "kube-system", <<"kube-scheduler">>,
           ScopeOf(NamespacedScope)),
      Rule("", "v1", "Namespace", "default", <<"default">>, ScopeOf(ClusterScope)),
      Rule("", "v1", "Endpoints", "", <<"kube-scheduler">>, ScopeOf(NamespacedScope)) }

FilterInputs ==
    { <<r>> : r \in RuleDomain } \cup SeqsUpTo(FilterPool, MaxRules)

InitFilter ==
    /\ env = "unset"
    /\ file = MissingFile
    /\ once = FALSE
    /\ loadedFrom = <<>>
    /\ exclusionRulesFromFile \in FilterInputs
    /\ exclusionRules = <<>>
    /\ call = NoCall
    /\ mu = NoCaller
    /\ pc = <<>>
    /\ local = <<>>

\* filteredExclusionRules := filterValidRules(exclusionRulesFromFile)
Filter ==
    /\ ~once
    /\ exclusionRules' = filterValidRules(exclusionRulesFromFile)
    /\ once' = TRUE
    /\ UNCHANGED <<env, file, loadedFrom, exclusionRulesFromFile, call,
                   mu, pc, local>>

NextFilter == Filter

SpecFilter == InitFilter /\ [][NextFilter]_vars

----------------------------------------------------------------------------
(* The Excluder and the Matcher on any stored rules: SpecMatch.  As in the *)
(* unit tests, CriticalPathExcluder{exclusionRules: rules} is built from   *)
(* any sequence of up to MaxRules rules of MatchPool, validated or not.    *)

MatchPool ==
    { defaultExclusion[1],
      defaultExclusion[2],
      DeploymentRule,
      NamespaceRule,
      Rule("coordination.k8s.io", "v1", "Lease", "kube-node-lease",
           <<"kube-scheduler", "*">>, NilScope) }

InitMatch ==
    /\ env = "unset"
    /\ file = MissingFile
    /\ once = TRUE
    /\ loadedFrom = <<>>
    /\ exclusionRulesFromFile = <<>>
    /\ exclusionRules \in SeqsUpTo(MatchPool, MaxRules)
    /\ call = NoCall
    /\ mu = NoCaller
    /\ pc = <<>>
    /\ local = <<>>

NextMatch ==
    \/ \E a \in Attributes : ShouldSkip(a)
    \/ Return

SpecMatch == InitMatch /\ [][NextMatch]_vars

----------------------------------------------------------------------------
(* Properties.                                                             *)

RangeOf(s) == { s[i] : i \in DOMAIN s }

Called == call # NoCall
CallAttr == call[1].attr
CallResult == call[1].result

\* The objects leader election of the two control-plane components writes.
LeaderElectionObject(a) ==
    /\ \/ /\ a.Resource.Group = "coordination.k8s.io"
          /\ a.Resource.Version = "v1"
          /\ a.Kind.Kind = "Lease"
       \/ /\ a.Resource.Group = ""
          /\ a.Resource.Version = "v1"
          /\ a.Kind.Kind = "Endpoints"
    /\ a.Namespace = "kube-system"
    /\ a.Name \in {"kube-controller-manager", "kube-scheduler"}

\* C1 (SpecMatch): whatever rules are stored and whatever the request,
\* ShouldSkipWebhookDueToExclusionRules returns true iff Matches is true of at
\* least one stored rule; so it is false for no rules and when none matches.
C1_SkipIffSomeRuleMatches ==
    Called =>
        (CallResult <=>
            \E i \in 1..Len(exclusionRules) :
                Matches(Matcher(exclusionRules[i], CallAttr)))

\* A call answered true by the second of two rules, the first not matching.
C1_Witness ==
    /\ Called
    /\ Len(exclusionRules) = 2
    /\ CallResult
    /\ ~Matches(Matcher(exclusionRules[1], CallAttr))
    /\ Matches(Matcher(exclusionRules[2], CallAttr))

\* C2 (Spec): an Excluder constructed while the environment variable was not
\* set answers true exactly for the kube-system Lease (coordination.k8s.io/v1)
\* and Endpoints (core v1) named kube-controller-manager or kube-scheduler.
C2_DefaultsWithoutSource ==
    (Called /\ loadedFrom[1].env = "unset") =>
        (CallResult <=> LeaderElectionObject(CallAttr))

C2_Witness ==
    /\ Called
    /\ loadedFrom[1].env = "unset"
    /\ CallAttr.Kind.Kind = "Endpoints"
    /\ CallAttr.Name = "kube-controller-manager"
    /\ CallResult

\* The designated source could not be read, or its content did not parse.
SourceFailed(l) ==
    /\ l.env = "set"
    /\ \/ l.file.state \in {"missing", "unreadable"}
       \/ l.file.state = "ok" /\ l.file.doc.json = "garbage"

\* C3 (Spec): when the variable is set and the file is missing, unreadable or
\* unparsable, readFile returns exactly the default rules (never no rules),
\* and the Excluder decides as it does with no source designated.
C3_DefaultsOnFailedSource ==
    (loadedFrom # <<>> /\ SourceFailed(loadedFrom[1])) =>
        /\ exclusionRulesFromFile = defaultExclusion
        /\ exclusionRulesFromFile # <<>>
        /\ Called => (CallResult <=> LeaderElectionObject(CallAttr))

\* A call answered true by an Excluder built from an unparsable file.
C3_Witness ==
    /\ Called
    /\ SourceFailed(loadedFrom[1])
    /\ loadedFrom[1].file.state = "ok"
    /\ CallResult

LoadedDeploymentRuleOnly ==
    /\ loadedFrom # <<>>
    /\ loadedFrom[1].env = "set"
    /\ loadedFrom[1].file = FileWith(ArrayDoc(<<DeploymentObject>>))

DeploymentInDefault(a) ==
    /\ a.Resource.Group = "apps"
    /\ a.Resource.Version = "v1"
    /\ a.Kind.Kind = "Deployment"
    /\ a.Namespace = "default"

\* C4 (Spec): with the file holding only the apps/v1 Deployment rule for
\* my-deploy in namespace default, a request for a Deployment in default is
\* answered true when its name is my-deploy and false for any other name.
C4_DeploymentRuleFromFile ==
    (Called /\ LoadedDeploymentRuleOnly /\ DeploymentInDefault(CallAttr)) =>
        (CallResult <=> CallAttr.Name = "my-deploy")

C4_Witness ==
    /\ Called
    /\ LoadedDeploymentRuleOnly
    /\ DeploymentInDefault(CallAttr)
    /\ CallAttr.Name = "my-deploy"
    /\ CallResult

\* C5 (SpecFilter): a rule whose scope is unset or All is not in the output
\* of filterValidRules, whatever its other fields.
C5_UnsetOrAllScopeRejected ==
    once =>
        \A i \in 1..Len(exclusionRulesFromFile) :
            (\/ exclusionRulesFromFile[i].Scope = NilScope
             \/ exclusionRulesFromFile[i].Scope = ScopeOf(AllScopes))
            => exclusionRulesFromFile[i] \notin RangeOf(exclusionRules)

\* A rule with scope All and nothing else wrong with it, dropped.
C5_Witness ==
    /\ once
    /\ \E r \in RuleDomain :
          /\ exclusionRulesFromFile = <<r>>
          /\ r.Scope = ScopeOf(AllScopes)
          /\ r.APIGroup = "coordination.k8s.io" /\ r.APIVersion = "v1"
          /\ r.Kind = "Lease" /\ r.Namespace = "kube-system"
          /\ r.Name = <<"kube-scheduler">>
    /\ exclusionRules = <<>>

\* C6 (SpecFilter): a rule with the wildcard token as apiGroup, apiVersion,
\* namespace or kind is not in the output of filterValidRules, whatever its
\* names and scope.
C6_FieldWildcardRejected ==
    once =>
        \A i \in 1..Len(exclusionRulesFromFile) :
            (\/ exclusionRulesFromFile[i].APIGroup = "*"
             \/ exclusionRulesFromFile[i].APIVersion = "*"
             \/ exclusionRulesFromFile[i].Namespace = "*"
             \/ exclusionRulesFromFile[i].Kind = "*")
            => exclusionRulesFromFile[i] \notin RangeOf(exclusionRules)

\* A Namespaced rule with namespace "*" and nothing else wrong, dropped.
C6_Witness ==
    /\ once
    /\ exclusionRulesFromFile =
          << Rule("coordination.k8s.io", "v1", "Lease", "*",
                  <<"kube-scheduler">>, ScopeOf(NamespacedScope)) >>
    /\ exclusionRules = <<>>

\* The one target a names wildcard is allowed for.
NodeLeaseTarget(r) ==
    /\ r.APIGroup = "coordination.k8s.io"
    /\ r.APIVersion = "v1"
    /\ r.Kind = "Lease"
    /\ r.Namespace = "kube-node-lease"

HasNameWildcard(r) == \E j \in 1..Len(r.Name) : r.Name[j] = "*"

\* C7 as claimed (SpecFilter): a rule with the wildcard among its names is
\* in the output iff it targets coordination.k8s.io/v1 Lease in
\* kube-node-lease.
C7_WildcardSurvivesIffNodeLease ==
    once =>
        \A i \in 1..Len(exclusionRulesFromFile) :
            HasNameWildcard(exclusionRulesFromFile[i]) =>
                (exclusionRulesFromFile[i] \in RangeOf(exclusionRules)
                    <=> NodeLeaseTarget(exclusionRulesFromFile[i]))

\* C7 as amended (SpecFilter): a rule with the wildcard among its names is
\* in the output iff it targets coordination.k8s.io/v1 Lease in
\* kube-node-lease and its scope is set and is neither All nor Cluster.
C7_WildcardSurvivesIffNodeLeaseAndScope ==
    once =>
        \A i \in 1..Len(exclusionRulesFromFile) :
            HasNameWildcard(exclusionRulesFromFile[i]) =>
                (exclusionRulesFromFile[i] \in RangeOf(exclusionRules)
                    <=> /\ NodeLeaseTarget(exclusionRulesFromFile[i])
                        /\ exclusionRulesFromFile[i].Scope # NilScope
                        /\ exclusionRulesFromFile[i].Scope # ScopeOf(AllScopes)
                        /\ exclusionRulesFromFile[i].Scope # ScopeOf(ClusterScope))

\* A rule with wildcard and exact name for node leases, kept.
C7_Witness ==
    /\ once
    /\ Len(exclusionRulesFromFile) = 1
    /\ HasNameWildcard(exclusionRulesFromFile[1])
    /\ Len(exclusionRulesFromFile[1].Name) = 2
    /\ NodeLeaseTarget(exclusionRulesFromFile[1])
    /\ exclusionRules = exclusionRulesFromFile

\* C8 (SpecFilter): filterValidRules drops every Cluster rule with a
\* namespace and every Namespaced rule without one, so in its output
\* Cluster implies an empty and Namespaced a non-empty namespace.
C8_ScopeNamespaceAgreement ==
    once =>
        /\ \A i \in 1..Len(exclusionRulesFromFile) :
              (\/ /\ exclusionRulesFromFile[i].Scope = ScopeOf(ClusterScope)
                  /\ exclusionRulesFromFile[i].Namespace # ""
               \/ /\ exclusionRulesFromFile[i].Scope = ScopeOf(NamespacedScope)
                  /\ exclusionRulesFromFile[i].Namespace = "")
              => exclusionRulesFromFile[i] \notin RangeOf(exclusionRules)
        /\ \A j \in 1..Len(exclusionRules) :
              /\ exclusionRules[j].Scope = ScopeOf(ClusterScope)
                    => exclusionRules[j].Namespace = ""
              /\ exclusionRules[j].Scope = ScopeOf(NamespacedScope)
                    => exclusionRules[j].Namespace # ""

\* A Cluster rule with a namespace dropped next to a Cluster rule kept.
C8_Witness ==
    /\ once
    /\ Len(exclusionRulesFromFile) = 2
    /\ exclusionRulesFromFile[1].Scope = ScopeOf(ClusterScope)
    /\ exclusionRulesFromFile[1].Namespace = "default"
    /\ exclusionRulesFromFile[2].Scope = ScopeOf(ClusterScope)
    /\ exclusionRules = <<exclusionRulesFromFile[2]>>
    /\ exclusionRulesFromFile[2].Namespace = ""

\* The scope a request has by its resource and namespace.
RequestIsClusterScoped(a) ==
    a.Resource = namespaceResource \/ a.Namespace = ""

ScopeConsistent(r, a) ==
    \/ r.Scope = ScopeOf(ClusterScope) /\ RequestIsClusterScoped(a)
    \/ r.Scope = ScopeOf(NamespacedScope) /\ ~RequestIsClusterScoped(a)

\* C9 as claimed (Spec): a stored rule matches a request only if the rule's
\* scope is consistent with the request's scope: a request on the namespaces
\* resource or with no namespace is matched by Cluster rules only, any other
\* request by Namespaced rules only.
C9_MatchOnlyIfScopeConsistent ==
    Called =>
        \A i \in 1..Len(exclusionRules) :
            Matches(Matcher(exclusionRules[i], CallAttr))
                => ScopeConsistent(exclusionRules[i], CallAttr)

LoadedNamespaceRuleOnly ==
    /\ loadedFrom # <<>>
    /\ loadedFrom[1].env = "set"
    /\ loadedFrom[1].file = FileWith(ArrayDoc(<<NamespaceObject>>))

\* C10 as claimed (Spec): with the file holding only a Namespaced rule for
\* core/v1 Namespace objects, the rule is dropped by validation and so no
\* request on the namespaces resource is answered true.  (A true answer
\* needs a stored rule: where this fails, exclusionRules holds the rule.)
C10_NamespacedNamespaceRuleRejected ==
    (LoadedNamespaceRuleOnly /\ Called /\ CallAttr.Resource = namespaceResource)
        => ~CallResult

\* The five checks of the validation, for one rule taken alone.
PassesAllChecks(r) ==
    /\ r.Scope # NilScope
    /\ r.Scope # ScopeOf(AllScopes)
    /\ r.APIGroup # "*" /\ r.APIVersion # "*" /\ r.Namespace # "*" /\ r.Kind # "*"
    /\ HasNameWildcard(r) => NodeLeaseTarget(r)
    /\ r.Scope = ScopeOf(ClusterScope) => r.Namespace = ""
    /\ r.Scope = ScopeOf(NamespacedScope) => r.Namespace # ""

\* C13 (SpecFilter): the output of filterValidRules is the subsequence of
\* the input made of the rules that pass the checks taken alone, in input
\* order and unchanged; it is never longer than the input.
C13_OutputIsValidSubsequence ==
    once =>
        /\ exclusionRules = SelectSeq(exclusionRulesFromFile, PassesAllChecks)
        /\ Len(exclusionRules) <= Len(exclusionRulesFromFile)

\* A rejected rule followed by an accepted one: the second is kept.
C13_Witness ==
    /\ once
    /\ Len(exclusionRulesFromFile) = 2
    /\ ~PassesAllChecks(exclusionRulesFromFile[1])
    /\ PassesAllChecks(exclusionRulesFromFile[2])
    /\ exclusionRules = <<exclusionRulesFromFile[2]>>

\* C14 (SpecFilter): filterValidRules applied to its own output returns
\* that output.
C14_FilterIdempotent ==
    once => filterValidRules(exclusionRules) = exclusionRules

\* Two rules kept by the first pass, so that the second pass has rules to drop.
C14_Witness ==
    /\ once
    /\ Len(exclusionRules) = 2
    /\ exclusionRules[1] # exclusionRules[2]

\* The sequence s with its elements in the order f gives.
Permuted(s, f) == [i \in 1..Len(s) |-> s[f[i]]]

Permutations(n) ==
    { f \in [1..n -> 1..n] : \A i \in 1..n : \E j \in 1..n : f[j] = i }

\* C15 (SpecMatch): the answer of ShouldSkipWebhookDueToExclusionRules is
\* the same for every order of the stored rules.
C15_OrderDoesNotMatter ==
    Called =>
        \A f \in Permutations(Len(exclusionRules)) :
            ShouldSkipWebhookDueToExclusionRules(Permuted(exclusionRules, f), CallAttr)
                = CallResult

\* Answered true with only the last stored rule matching.
C15_Witness ==
    /\ Called
    /\ Len(exclusionRules) = MaxRules
    /\ CallResult
    /\ \A i \in 1..(Len(exclusionRules) - 1) :
          ~Matches(Matcher(exclusionRules[i], CallAttr))

C19_TwoDefaultRules ==
    (loadedFrom # <<>> /\ loadedFrom[1].env = "unset") =>
        /\ exclusionRulesFromFile =
              << Rule("coordination.k8s.io", "v1", "Lease", "kube-system",
                      <<"kube-controller-manager", "kube-scheduler">>,
                      ScopeOf(NamespacedScope)),
                 Rule("", "v1", "Endpoints", "kube-system",
                      <<"kube-controller-manager", "kube-scheduler">>,
                      ScopeOf(NamespacedScope)) >>
        /\ exclusionRules = exclusionRulesFromFile

\* Constructed with the variable unset although a rule file is in place.
C19_Witness ==
    /\ once
    /\ loadedFrom # <<>>
    /\ loadedFrom[1].env = "unset"
    /\ loadedFrom[1].file = FileWith(ArrayDoc(<<DeploymentObject>>))
    /\ Len(exclusionRules) = 2

\* The designated source was read and its content parsed.
SourceLoaded(l) ==
    /\ l.env = "set"
    /\ l.file.state = "ok"
    /\ l.file.doc.json # "garbage"

\* The rule r holds what the JSON object obj says, and Go zero values for
\* the keys obj does not have.
Verbatim(obj, r) ==
    /\ r.APIGroup = (IF "apiGroup" \in DOMAIN obj THEN obj.apiGroup ELSE "")
    /\ r.APIVersion = (IF "apiVersion" \in DOMAIN obj THEN obj.apiVersion ELSE "")
    /\ r.Kind = (IF "kind" \in DOMAIN obj THEN obj.kind ELSE "")
    /\ r.Namespace = (IF "namespace" \in DOMAIN obj THEN obj.namespace ELSE "")
    /\ r.Name = (IF "name" \in DOMAIN obj THEN obj.name ELSE <<>>)
    /\ r.Scope = (IF "scope" \in DOMAIN obj THEN <<obj.scope>> ELSE <<>>)

\* C20 (Spec): when the file is read and parsed, readFile returns the rules
\* of the file, one per object and in the file's order, with no default rule
\* added and no rule left out.
C20_LoadedVerbatim ==
    (loadedFrom # <<>> /\ SourceLoaded(loadedFrom[1])) =>
        /\ Len(exclusionRulesFromFile) = Len(loadedFrom[1].file.doc.items)
        /\ \A i \in 1..Len(exclusionRulesFromFile) :
              Verbatim(loadedFrom[1].file.doc.items[i], exclusionRulesFromFile[i])

\* Two rules read, the first of which validation then drops.
C20_Witness ==
    /\ loadedFrom # <<>>
    /\ SourceLoaded(loadedFrom[1])
    /\ Len(exclusionRulesFromFile) = 2
    /\ Len(exclusionRules) = 1
    /\ exclusionRules[1] = exclusionRulesFromFile[2]

----------------------------------------------------------------------
\* SpecPredicate: the scope and name predicates of the Matcher, applied to
\* rules of every scope and names list and to every request.

PredicateRule(n, sc) == Rule("", "v1", "Namespace", "default", n, sc)

\* Every scope with one names list, and every names list with one scope.
PredicateRules ==
    { PredicateRule(<<"kube-scheduler">>, sc) : sc \in RuleScopes }
        \cup { PredicateRule(n, ScopeOf(NamespacedScope)) :
                    n \in SeqsUpTo(NameTokens, MaxNames) }

\* One rule, or the same rule once with scope Cluster and once Namespaced.
PredicateInputs ==
    { <<r>> : r \in PredicateRules }
        \cup { << PredicateRule(<<"kube-scheduler">>, ScopeOf(ClusterScope)),
                  PredicateRule(<<"kube-scheduler">>, ScopeOf(NamespacedScope)) >> }

InitPredicate ==
    /\ env = "unset"
    /\ file = MissingFile
    /\ once = TRUE
    /\ loadedFrom = <<>>
    /\ exclusionRulesFromFile = <<>>
    /\ exclusionRules \in PredicateInputs
    /\ call = NoCall
    /\ mu = NoCaller
    /\ pc = <<>>
    /\ local = <<>>

\* Matcher.scope() of every stored rule for the request a.
EvalScope(a) ==
    /\ call = NoCall
    /\ call' = << [attr      |-> a,
                   predicate |-> "scope",
                   results   |-> [i \in 1..Len(exclusionRules) |->
                                    scope(Matcher(exclusionRules[i], a))]] >>
    /\ UNCHANGED <<env, file, once, loadedFrom, exclusionRulesFromFile, exclusionRules,
                   mu, pc, local>>

\* Matcher.name() of every stored rule for the request a.
EvalName(a) ==
    /\ call = NoCall
    /\ call' = << [attr      |-> a,
                   predicate |-> "name",
                   results   |-> [i \in 1..Len(exclusionRules) |->
                                    name(Matcher(exclusionRules[i], a))]] >>
    /\ UNCHANGED <<env, file, once, loadedFrom, exclusionRulesFromFile, exclusionRules,
                   mu, pc, local>>

NextPredicate ==
    \/ \E a \in Attributes : EvalScope(a)
    \/ \E a \in Attributes : EvalName(a)
    \/ Return

SpecPredicate == InitPredicate /\ [][NextPredicate]_vars

Evaluated(p) == call # NoCall /\ call[1].predicate = p

\* C17 (SpecPredicate): scope() of a Cluster rule is true exactly for the
\* requests whose resource is core/v1 namespaces or whose namespace is
\* empty, scope() of a Namespaced rule exactly for the other requests, and
\* scope() of a rule with scope "*" or no scope for no request; so of a
\* Cluster rule and a Namespaced rule exactly one is satisfied.
C17_ScopePredicate ==
    Evaluated("scope") =>
        /\ \A i \in 1..Len(exclusionRules) :
              /\ exclusionRules[i].Scope = ScopeOf(ClusterScope) =>
                    (call[1].results[i] <=>
                        (\/ call[1].attr.Resource = [Group |-> "", Version |-> "v1",
                                                     Resource |-> "namespaces"]
                         \/ call[1].attr.Namespace = ""))
              /\ exclusionRules[i].Scope = ScopeOf(NamespacedScope) =>
                    (call[1].results[i] <=>
                        (/\ call[1].attr.Resource # [Group |-> "", Version |-> "v1",
                                                     Resource |-> "namespaces"]
                         /\ call[1].attr.Namespace # ""))
              /\ exclusionRules[i].Scope \in {NilScope, ScopeOf(AllScopes)} =>
                    ~call[1].results[i]
        /\ (/\ Len(exclusionRules) = 2
            /\ exclusionRules[1].Scope = ScopeOf(ClusterScope)
            /\ exclusionRules[2].Scope = ScopeOf(NamespacedScope)) =>
                call[1].results[1] # call[1].results[2]

\* A request for the namespace object "default", which carries its own
\* name as namespace: the Cluster rule is satisfied, the Namespaced is not.
C17_Witness ==
    /\ Evaluated("scope")
    /\ Len(exclusionRules) = 2
    /\ call[1].attr.Resource = namespaceResource
    /\ call[1].attr.Namespace = "default"
    /\ call[1].results = <<TRUE, FALSE>>

\* C18 (SpecPredicate): name() is true exactly when the request's name is
\* an element of the rule's names list or "*" is; it is false for the empty
\* list.
C18_NamePredicate ==
    Evaluated("name") =>
        \A i \in 1..Len(exclusionRules) :
            /\ call[1].results[i] <=>
                  (\/ call[1].attr.Name \in RangeOf(exclusionRules[i].Name)
                   \/ "*" \in RangeOf(exclusionRules[i].Name))
            /\ exclusionRules[i].Name = <<>> => ~call[1].results[i]

\* A name that is not in the list, after which the list has the wildcard.
C18_Witness ==
    /\ Evaluated("name")
    /\ exclusionRules[1].Name = <<"kube-scheduler", "*">>
    /\ call[1].attr.Name = "my-deploy"
    /\ call[1].results[1]

----------------------------------------------------------------------
\* SpecTotal: ShouldSkipWebhookDueToExclusionRules and Matches applied to
\* rules with nothing set, and to every request.

EmptyRule == Rule("", "", "", "", <<>>, NilScope)

TotalPool ==
    { EmptyRule,
      defaultExclusion[1],
      Rule("coordination.k8s.io", "v1", "Lease", "kube-node-lease", <<"*">>, NilScope) }

InitTotal ==
    /\ env = "unset"
    /\ file = MissingFile
    /\ once = TRUE
    /\ loadedFrom = <<>>
    /\ exclusionRulesFromFile = <<>>
    /\ exclusionRules \in SeqsUpTo(TotalPool, MaxRules)
    /\ call = NoCall
    /\ mu = NoCaller
    /\ pc = <<>>
    /\ local = <<>>

\* Matcher.Matches() of every stored rule for the request a.
EvalMatches(a) ==
    /\ call = NoCall
    /\ call' = << [attr      |-> a,
                   predicate |-> "Matches",
                   results   |-> [i \in 1..Len(exclusionRules) |->
                                    Matches(Matcher(exclusionRules[i], a))]] >>
    /\ UNCHANGED <<env, file, once, loadedFrom, exclusionRulesFromFile, exclusionRules,
                   mu, pc, local>>

NextTotal ==
    \/ \E a \in Attributes : ShouldSkip(a)
    \/ \E a \in Attributes : EvalMatches(a)
    \/ Return

SpecTotal == InitTotal /\ [][NextTotal]_vars

\* C12 (SpecTotal): for every stored rule sequence (rules with no scope,
\* empty fields and an empty names list among them) and every request, the
\* call of ShouldSkipWebhookDueToExclusionRules and the call of Matches can
\* be made and return, and what they return is a boolean.
C12_Total ==
    /\ call = NoCall =>
          \A a \in Attributes : (ENABLED ShouldSkip(a)) /\ (ENABLED EvalMatches(a))
    /\ (call # NoCall /\ "result" \in DOMAIN call[1]) =>
          call[1].result \in BOOLEAN
    /\ (call # NoCall /\ "results" \in DOMAIN call[1]) =>
          \A i \in 1..Len(exclusionRules) : call[1].results[i] \in BOOLEAN

\* The rule with nothing set has answered a request.
C12_Witness ==
    /\ call # NoCall
    /\ "result" \in DOMAIN call[1]
    /\ exclusionRules = <<EmptyRule>>
    /\ call[1].result = FALSE

----------------------------------------------------------------------
\* SpecOnce: goroutines serving admission requests reach the engine for
\* the first time while the environment variable is being set and unset.
\* Each runs LoadCriticalPathExcluder.Do(construct) and then asks the
\* excluder. The guard is a sync.Once: a done flag (once) read without the
\* lock on the fast path, and a mutex (mu) under which the flag is read
\* again, the construction runs and the flag is set.

MaxCallers == 3

Callers == 1..MaxCallers

NoLocals ==
    [from |-> <<>>, data |-> <<>>, filtered |-> <<>>, path |-> "", seen |-> <<>>,
     attr |-> <<>>, result |-> FALSE]

DeploymentRequest ==
    [Kind      |-> [Kind |-> "Deployment"],
     Resource  |-> [Group |-> "apps", Version |-> "v1", Resource |-> "deployments"],
     Namespace |-> "default",
     Name      |-> "my-deploy"]

SchedulerLeaseRequest ==
    [Kind      |-> [Kind |-> "Lease"],
     Resource  |-> [Group |-> "coordination.k8s.io", Version |-> "v1",
                    Resource |-> "leases"],
     Namespace |-> "kube-system",
     Name      |-> "kube-scheduler"]

OnceRequests == {DeploymentRequest, SchedulerLeaseRequest}

InitOnce ==
    /\ env = "unset"
    /\ file = FileWith(ArrayDoc(<<DeploymentObject>>))
    /\ once = FALSE
    /\ loadedFrom = <<>>
    /\ exclusionRulesFromFile = <<>>
    /\ exclusionRules = <<>>
    /\ call = NoCall
    /\ mu = NoCaller
    /\ pc = [c \in Callers |-> "Do"]
    /\ local = [c \in Callers |-> NoLocals]

\* Mutant: a goroutine that finds the flag unset constructs at once,
\* without taking the lock and without reading the flag again.
DoWithoutLock(c) ==
    /\ pc[c] = "Do"
    /\ IF once
       THEN /\ pc' = [pc EXCEPT ![c] = "use"]
            /\ local' = [local EXCEPT ![c].path = "fast"]
       ELSE /\ pc' = [pc EXCEPT ![c] = "readFile"]
            /\ local' = local
    /\ UNCHANGED <<env, file, once, loadedFrom, exclusionRulesFromFile, exclusionRules,
                   call, mu>>

\* Once.Do: the fast path, an atomic read of the flag.
Do(c) ==
    /\ pc[c] = "Do"
    /\ IF once
       THEN /\ pc' = [pc EXCEPT ![c] = "use"]
            /\ local' = [local EXCEPT ![c].path = "fast"]
       ELSE /\ pc' = [pc EXCEPT ![c] = "Lock"]
            /\ local' = local
    /\ UNCHANGED <<env, file, once, loadedFrom, exclusionRulesFromFile, exclusionRules,
                   call, mu>>

\* Once.doSlow: o.m.Lock() blocks while another goroutine holds the mutex.
Lock(c) ==
    /\ pc[c] = "Lock"
    /\ mu = NoCaller
    /\ mu' = c
    /\ pc' = [pc EXCEPT ![c] = "doSlow"]
    /\ UNCHANGED <<env, file, once, loadedFrom, exclusionRulesFromFile, exclusionRules,
                   call, local>>

\* Once.doSlow: the flag is read again under the lock.
doSlow(c) ==
    /\ pc[c] = "doSlow"
    /\ IF once
       THEN /\ pc' = [pc EXCEPT ![c] = "Unlock"]
            /\ local' = [local EXCEPT ![c].path = "waited"]
       ELSE /\ pc' = [pc EXCEPT ![c] = "readFile"]
            /\ local' = [local EXCEPT ![c].path = "constructed"]
    /\ UNCHANGED <<env, file, once, loadedFrom, exclusionRulesFromFile, exclusionRules,
                   call, mu>>

\* NewCriticalPathExcluder: exclusionRules := readFile()
LoadRules(c) ==
    /\ pc[c] = "readFile"
    /\ local' = [local EXCEPT ![c].from = <<[env |-> env, file |-> file]>>,
                              ![c].data = readFile(env, file)]
    /\ pc' = [pc EXCEPT ![c] = "filterValidRules"]
    /\ UNCHANGED <<env, file, once, loadedFrom, exclusionRulesFromFile, exclusionRules,
                   call, mu>>

\* NewCriticalPathExcluder: filteredRules := filterValidRules(exclusionRules)
ValidateRules(c) ==
    /\ pc[c] = "filterValidRules"
    /\ local' = [local EXCEPT ![c].filtered = filterValidRules(local[c].data)]
    /\ pc' = [pc EXCEPT ![c] = "store"]
    /\ UNCHANGED <<env, file, once, loadedFrom, exclusionRulesFromFile, exclusionRules,
                   call, mu>>

\* NewCriticalPathExcluder returns and its result becomes the excluder of
\* the process.
StoreExcluder(c) ==
    /\ pc[c] = "store"
    /\ loadedFrom' = loadedFrom \o local[c].from
    /\ exclusionRulesFromFile' = local[c].data
    /\ exclusionRules' = local[c].filtered
    /\ pc' = [pc EXCEPT ![c] = "done"]
    /\ UNCHANGED <<env, file, once, call, mu, local>>

\* Once.doSlow: the deferred o.done.Store(1), after the function returned.
SetDone(c) ==
    /\ pc[c] = "done"
    /\ once' = TRUE
    /\ pc' = [pc EXCEPT ![c] = "Unlock"]
    /\ UNCHANGED <<env, file, loadedFrom, exclusionRulesFromFile, exclusionRules,
                   call, mu, local>>

\* Once.doSlow: the deferred o.m.Unlock().
Unlock(c) ==
    /\ pc[c] = "Unlock"
    /\ mu' = NoCaller
    /\ pc' = [pc EXCEPT ![c] = "use"]
    /\ UNCHANGED <<env, file, once, loadedFrom, exclusionRulesFromFile, exclusionRules,
                   call, local>>

\* After Do has returned: the goroutine asks the excluder about request a.
Use(c, a) ==
    /\ pc[c] = "use"
    /\ local' = [local EXCEPT
                    ![c].seen = <<[rules |-> exclusionRules, stored |-> loadedFrom # <<>>]>>,
                    ![c].attr = <<a>>,
                    ![c].result = ShouldSkipWebhookDueToExclusionRules(exclusionRules, a)]
    /\ pc' = [pc EXCEPT ![c] = "returned"]
    /\ UNCHANGED <<env, file, once, loadedFrom, exclusionRulesFromFile, exclusionRules,
                   call, mu>>

NextOnce ==
    \/ Setenv
    \/ Unsetenv
    \/ \E c \in Callers : Do(c)
    \/ \E c \in Callers : Lock(c)
    \/ \E c \in Callers : doSlow(c)
    \/ \E c \in Callers : LoadRules(c)
    \/ \E c \in Callers : ValidateRules(c)
    \/ \E c \in Callers : StoreExcluder(c)
    \/ \E c \in Callers : SetDone(c)
    \/ \E c \in Callers : Unlock(c)
    \/ \E c \in Callers, a \in OnceRequests : Use(c, a)

SpecOnce == InitOnce /\ [][NextOnce]_vars

\* C11 (SpecOnce): whatever the interleaving of the goroutines, the
\* construction runs at most once; a goroutine is past Do only when the
\* construction has run, once and to its end, and the excluder holds the
\* validated rules of the source as that construction found it; and every
\* goroutine that has asked the excluder has seen that same, stored, rule
\* sequence and got the answer it gives.
C11_ConstructedOnce ==
    /\ Len(loadedFrom) <= 1
    /\ \A c \in Callers :
          pc[c] \in {"use", "returned"} =>
              /\ once
              /\ Len(loadedFrom) = 1
              /\ exclusionRules =
                    NewCriticalPathExcluder(loadedFrom[1].env, loadedFrom[1].file)
    /\ \A c \in Callers :
          pc[c] = "returned" =>
              /\ local[c].seen = <<[rules |-> exclusionRules, stored |-> TRUE]>>
              /\ local[c].result =
                    ShouldSkipWebhookDueToExclusionRules(exclusionRules, local[c].attr[1])
    /\ \A c1, c2 \in Callers :
          (pc[c1] = "returned" /\ pc[c2] = "returned") =>
              local[c1].seen = local[c2].seen

\* One goroutine constructed while another waited for the lock, the
\* variable has changed since (a second construction would have loaded
\* other rules), and both have asked the excluder.
C11_Witness ==
    \E c1, c2 \in Callers :
        /\ pc[c1] = "returned" /\ local[c1].path = "constructed"
        /\ pc[c2] = "returned" /\ local[c2].path = "waited"
        /\ env # loadedFrom[1].env

\* C21 (Spec): from a state in which construction has completed, no step
\* (a ShouldSkip call, a change of the variable or of the file, the reset
\* itself) changes the stored rules, and every decision is the one the
\* rules of the configuration found at construction give.
C21_RulesImmutable ==
    /\ [][once => /\ exclusionRules' = exclusionRules
                  /\ exclusionRulesFromFile' = exclusionRulesFromFile]_vars
    /\ [](Called =>
            CallResult =
                ShouldSkipWebhookDueToExclusionRules(
                    filterValidRules(readFile(loadedFrom[1].env, loadedFrom[1].file)),
                    CallAttr))

\* Constructed with the variable unset; since then the variable was set
\* and names the Deployment rule file, and my-deploy is still not skipped.
C21_Witness ==
    /\ Called
    /\ loadedFrom[1].env = "unset"
    /\ env = "set"
    /\ file = FileWith(ArrayDoc(<<DeploymentObject>>))
    /\ DeploymentInDefault(CallAttr)
    /\ CallAttr.Name = "my-deploy"
    /\ ~CallResult

\* The file was read, parsed, and validation kept none of its rules.
LoadedNothingValid ==
    /\ loadedFrom # <<>>
    /\ SourceLoaded(loadedFrom[1])
    /\ \A i \in 1..Len(exclusionRulesFromFile) :
          ~PassesAllChecks(exclusionRulesFromFile[i])

\* C28 (Spec): when the file parsed and its list is empty or holds only
\* rules that validation rejects, the excluder holds no rule and every
\* request is answered false.
C28_NoFallbackToDefaults ==
    (once /\ LoadedNothingValid) =>
        /\ exclusionRules = <<>>
        /\ Called => ~CallResult

\* The file's only rule has no scope; the scheduler's Lease in kube-system,
\* which the defaults protect, is not skipped.
C28_Witness ==
    /\ Called
    /\ LoadedNothingValid
    /\ loadedFrom[1].file = FileWith(ArrayDoc(<<NoScopeObject>>))
    /\ CallAttr.Resource.Group = "coordination.k8s.io"
    /\ CallAttr.Resource.Version = "v1"
    /\ CallAttr.Kind.Kind = "Lease"
    /\ CallAttr.Namespace = "kube-system"
    /\ CallAttr.Name = "kube-scheduler"
    /\ ~CallResult

\* C29 (Spec): with the file holding only the apps/v1 Deployment rule, the
\* excluder holds that rule alone and the kube-system Lease and Endpoints
\* objects kube-controller-manager and kube-scheduler are not skipped.
C29_FileReplacesDefaults ==
    (once /\ LoadedDeploymentRuleOnly) =>
        /\ Len(exclusionRules) = 1
        /\ (/\ Called
            /\ LeaderElectionObject(CallAttr)
            /\ CallAttr.Name \in {"kube-controller-manager", "kube-scheduler"})
               => ~CallResult

\* The Endpoints object kube-controller-manager asked about under the
\* Deployment rule file.
C29_Witness ==
    /\ Called
    /\ LoadedDeploymentRuleOnly
    /\ CallAttr.Resource.Group = ""
    /\ CallAttr.Kind.Kind = "Endpoints"
    /\ CallAttr.Namespace = "kube-system"
    /\ CallAttr.Name = "kube-controller-manager"
    /\ ~CallResult

\* C23 (SpecFilter): every rule in the output of filterValidRules has
\* scope Cluster or Namespaced, whatever scope token the input rule carried.
C23_OutputScopeClusterOrNamespaced ==
    once =>
        \A i \in 1..Len(exclusionRules) :
            exclusionRules[i].Scope \in {ScopeOf(ClusterScope), ScopeOf(NamespacedScope)}

\* A field of the rule was absent from its JSON object: apiVersion, kind,
\* name or scope has its zero value.
HasAbsentField(r) ==
    \/ r.APIVersion = ""
    \/ r.Kind = ""
    \/ r.Name = <<>>
    \/ r.Scope = NilScope

\* C24 (SpecFilter): a rule with apiVersion, kind, name or scope absent is
\* not in the output of filterValidRules.
C24_AbsentFieldRejected ==
    once =>
        \A i \in 1..Len(exclusionRulesFromFile) :
            HasAbsentField(exclusionRulesFromFile[i]) =>
                exclusionRulesFromFile[i] \notin RangeOf(exclusionRules)

----------------------------------------------------------------------
\* SpecWildcard: rules with and without the wildcard among their names are
\* validated, and the excluder that holds the result is asked about every
\* request.

WildcardNames ==
    { <<"*">>, <<"kube-scheduler", "*">>, <<"*", "kube-scheduler">>, <<"kube-scheduler">> }

WildcardRules ==
    { Rule(t[1], t[2], t[3], t[4], n, sc) :
        t \in { <<"coordination.k8s.io", "v1", "Lease", "kube-node-lease">>,
                <<"coordination.k8s.io", "v1", "Lease", "kube-system">>,
                <<"apps", "v1", "Deployment", "default">>,
                <<"", "v1", "Namespace", "">> },
        n \in WildcardNames,
        sc \in { ScopeOf(NamespacedScope), ScopeOf(ClusterScope), NilScope,
                 ScopeOf("namespaced") } }

WildcardInputs ==
    { <<r>> : r \in WildcardRules }
        \cup { << UnmarshalRule(WildcardDeploymentObject), NodeLeaseRule >> }

InitWildcard ==
    /\ env = "unset"
    /\ file = MissingFile
    /\ once = FALSE
    /\ loadedFrom = <<>>
    /\ exclusionRulesFromFile \in WildcardInputs
    /\ exclusionRules = <<>>
    /\ call = NoCall
    /\ mu = NoCaller
    /\ pc = <<>>
    /\ local = <<>>

NextWildcard ==
    \/ Filter
    \/ \E a \in ServedAttributes : ShouldSkip(a)
    \/ Return

SpecWildcard == InitWildcard /\ [][NextWildcard]_vars

\* C25 (SpecWildcard): a rule for coordination.k8s.io/v1 Lease in
\* kube-node-lease whose names hold the wildcard and an exact name, and
\* whose scope passes the scope checks, is in the output of validation; and
\* a request that agrees with it on group, version, kind and namespace is
\* skipped whatever its name, the name predicate being true of every request.
C25_WildcardAmongNames ==
    once =>
        \A i \in 1..Len(exclusionRulesFromFile) :
            (/\ HasNameWildcard(exclusionRulesFromFile[i])
             /\ Len(exclusionRulesFromFile[i].Name) > 1
             /\ NodeLeaseTarget(exclusionRulesFromFile[i])
             /\ exclusionRulesFromFile[i].Scope # NilScope
             /\ exclusionRulesFromFile[i].Scope[1] \notin {AllScopes, ClusterScope})
            =>
            /\ exclusionRulesFromFile[i] \in RangeOf(exclusionRules)
            /\ Called =>
                  /\ name(Matcher(exclusionRulesFromFile[i], CallAttr))
                  /\ (/\ CallAttr.Resource.Group = "coordination.k8s.io"
                      /\ CallAttr.Resource.Version = "v1"
                      /\ CallAttr.Kind.Kind = "Lease"
                      /\ CallAttr.Namespace = "kube-node-lease") => CallResult

\* The names are kube-scheduler and the wildcard; the node lease asked
\* about has another name.
C25_Witness ==
    /\ Called
    /\ Len(exclusionRules) = 1
    /\ exclusionRules[1].Name = <<"kube-scheduler", "*">>
    /\ CallAttr.Name = "my-deploy"
    /\ CallResult

\* C27 (SpecWildcard): every validated rule with the wildcard among its
\* names is for coordination.k8s.io/v1 Lease in kube-node-lease, and a
\* request that such a rule matches is for that group, version, kind and
\* namespace.
C27_WildcardOnlyNodeLease ==
    once =>
        \A i \in 1..Len(exclusionRules) :
            HasNameWildcard(exclusionRules[i]) =>
                /\ NodeLeaseTarget(exclusionRules[i])
                /\ (Called /\ CallResult /\ Matches(Matcher(exclusionRules[i], CallAttr))) =>
                      /\ CallAttr.Resource.Group = "coordination.k8s.io"
                      /\ CallAttr.Resource.Version = "v1"
                      /\ CallAttr.Kind.Kind = "Lease"
                      /\ CallAttr.Namespace = "kube-node-lease"

\* The wildcard Deployment rule was dropped, the node lease rule kept, and
\* a node lease is skipped through it.
C27_Witness ==
    /\ Called
    /\ Len(exclusionRulesFromFile) = 2
    /\ exclusionRules = <<NodeLeaseRule>>
    /\ CallAttr.Namespace = "kube-node-lease"
    /\ CallResult

----------------------------------------------------------------------
\* SpecReset: the integration tests' harness. Each test resets the guard,
\* arranges the variable and the file and starts an API server, whose first
\* admission request constructs the excluder. loadedFrom keeps the
\* configuration every construction found, oldest first.

MaxStarts == 2

ResetDocs == { ArrayDoc(<<DeploymentObject>>), ArrayDoc(<<>>) }

InitReset ==
    /\ env = "unset"
    /\ file = FileWith(ArrayDoc(<<DeploymentObject>>))
    /\ once = FALSE
    /\ loadedFrom = <<>>
    /\ exclusionRulesFromFile = <<>>
    /\ exclusionRules = <<>>
    /\ call = NoCall
    /\ mu = NoCaller
    /\ pc = <<>>
    /\ local = <<>>

\* Mutant: a construction after a reset keeps the rules loaded before.
StartTestServerKeepsRules ==
    /\ call = NoCall
    /\ ~once
    /\ Len(loadedFrom) < MaxStarts
    /\ loadedFrom' = Append(loadedFrom, [env |-> env, file |-> file])
    /\ exclusionRulesFromFile' =
          IF loadedFrom = <<>> THEN readFile(env, file) ELSE exclusionRulesFromFile
    /\ exclusionRules' =
          IF loadedFrom = <<>> THEN NewCriticalPathExcluder(env, file) ELSE exclusionRules
    /\ once' = TRUE
    /\ UNCHANGED <<env, file, call, mu, pc, local>>

\* kubeapiservertesting.StartTestServerOrDie and the first admission
\* request: LoadCriticalPathExcluder.Do(... NewCriticalPathExcluder() ...)
StartTestServer ==
    /\ call = NoCall
    /\ ~once
    /\ Len(loadedFrom) < MaxStarts
    /\ loadedFrom' = Append(loadedFrom, [env |-> env, file |-> file])
    /\ exclusionRulesFromFile' = readFile(env, file)
    /\ exclusionRules' = NewCriticalPathExcluder(env, file)
    /\ once' = TRUE
    /\ UNCHANGED <<env, file, call, mu, pc, local>>

NextReset ==
    \/ Setenv
    \/ Unsetenv
    \/ \E d \in ResetDocs : WriteFile(d)
    \/ ResetOnce
    \/ StartTestServer
    \/ \E a \in OnceRequests : ShouldSkip(a)
    \/ Return

SpecReset == InitReset /\ [][NextReset]_vars

LastLoadedFrom == loadedFrom[Len(loadedFrom)]

\* C22 (SpecReset): the stored rules change only in a step taken with the
\* guard not done, which after a first construction is the case only once
\* the guard has been reset; such a step loads the variable and the file as
\* they are at that time; and every decision is the one the rules of the
\* latest construction's configuration give.
C22_ReconstructionAfterReset ==
    /\ [][(exclusionRules' # exclusionRules \/ loadedFrom' # loadedFrom) =>
            /\ ~once
            /\ once'
            /\ loadedFrom' = Append(loadedFrom, [env |-> env, file |-> file])
            /\ exclusionRules' = filterValidRules(readFile(env, file))]_vars
    /\ [][(once /\ ~once') =>
            UNCHANGED <<env, file, loadedFrom, exclusionRulesFromFile, exclusionRules>>]_vars
    /\ [](Called =>
            CallResult =
                ShouldSkipWebhookDueToExclusionRules(
                    filterValidRules(readFile(LastLoadedFrom.env, LastLoadedFrom.file)),
                    CallAttr))

\* Constructed twice, the second time from another configuration, and the
\* decision is not the one the rules loaded first would give.
C22_Witness ==
    /\ Called
    /\ Len(loadedFrom) = 2
    /\ loadedFrom[1] # loadedFrom[2]
    /\ CallResult #
          ShouldSkipWebhookDueToExclusionRules(
              NewCriticalPathExcluder(loadedFrom[1].env, loadedFrom[1].file), CallAttr)

----------------------------------------------------------------------
\* SpecCalls: after construction, goroutines serving admission requests
\* run ShouldSkipWebhookDueToExclusionRules at the same time, one iteration
\* of its loop per step. The receiver is a copy of the struct: the slice
\* header (its length) is private to the call, the rules it points to are
\* shared.

CallsInputs ==
    { <<>>,
      defaultExclusion,
      <<DeploymentRule>>,
      <<DeploymentRule, defaultExclusion[1]>> }

NoCallLocals == [attr |-> <<>>, n |-> 0, i |-> 0, result |-> <<>>]

InitCalls ==
    /\ env = "unset"
    /\ file = MissingFile
    /\ once = TRUE
    /\ loadedFrom = <<>>
    /\ exclusionRulesFromFile \in CallsInputs
    /\ exclusionRules = filterValidRules(exclusionRulesFromFile)
    /\ call = NoCall
    /\ mu = NoCaller
    /\ pc = [c \in Callers |-> "idle"]
    /\ local = [c \in Callers |-> NoCallLocals]

\* The call is made: attr is bound and the range expression evaluated.
CallShouldSkip(c, a) ==
    /\ pc[c] = "idle"
    /\ once
    /\ local' = [local EXCEPT ![c] = [attr |-> <<a>>, n |-> Len(exclusionRules),
                                      i |-> 1, result |-> <<>>]]
    /\ pc' = [pc EXCEPT ![c] = "range"]
    /\ UNCHANGED <<env, file, once, loadedFrom, exclusionRulesFromFile, exclusionRules,
                   call, mu>>

\* Mutant: a rule that does not match is dropped from the stored sequence
\* (a move-to-next that consumes the shared slice).
RangeRulesConsuming(c) ==
    /\ pc[c] = "range"
    /\ IF exclusionRules = <<>>
       THEN /\ local' = [local EXCEPT ![c].result = <<FALSE>>]
            /\ pc' = [pc EXCEPT ![c] = "returned"]
            /\ exclusionRules' = exclusionRules
       ELSE IF Matches(Matcher(exclusionRules[1], local[c].attr[1]))
       THEN /\ local' = [local EXCEPT ![c].result = <<TRUE>>]
            /\ pc' = [pc EXCEPT ![c] = "returned"]
            /\ exclusionRules' = exclusionRules
       ELSE /\ local' = local
            /\ pc' = pc
            /\ exclusionRules' = Tail(exclusionRules)
    /\ UNCHANGED <<env, file, once, loadedFrom, exclusionRulesFromFile, call, mu>>

\* One iteration of `for _, rule := range c.exclusionRules`, or its end.
RangeRules(c) ==
    /\ pc[c] = "range"
    /\ IF local[c].i > local[c].n
       THEN /\ local' = [local EXCEPT ![c].result = <<FALSE>>]
            /\ pc' = [pc EXCEPT ![c] = "returned"]
       ELSE IF Matches(Matcher(exclusionRules[local[c].i], local[c].attr[1]))
       THEN /\ local' = [local EXCEPT ![c].result = <<TRUE>>]
            /\ pc' = [pc EXCEPT ![c] = "returned"]
       ELSE /\ local' = [local EXCEPT ![c].i = local[c].i + 1]
            /\ pc' = pc
    /\ UNCHANGED <<env, file, once, loadedFrom, exclusionRulesFromFile, exclusionRules,
                   call, mu>>

NextCalls ==
    \/ \E c \in Callers, a \in OnceRequests : CallShouldSkip(c, a)
    \/ \E c \in Callers : RangeRules(c)

SpecCalls == InitCalls /\ [][NextCalls]_vars

\* C26 (SpecCalls): under every interleaving of the calls, no step writes
\* the stored rules or any other shared variable, and each call returns
\* what ShouldSkipWebhookDueToExclusionRules gives for its request and the
\* rules as constructed.
C26_CallsDoNotInterfere ==
    /\ [][UNCHANGED <<env, file, once, loadedFrom, exclusionRulesFromFile,
                      exclusionRules, call, mu>>]_vars
    /\ [](\A c \in Callers :
            pc[c] = "returned" =>
                local[c].result =
                    << ShouldSkipWebhookDueToExclusionRules(
                           filterValidRules(exclusionRulesFromFile), local[c].attr[1]) >>)

\* One call has returned true and another false while a third is in the
\* middle of the loop.
C26_Witness ==
    \E c1, c2, c3 \in Callers :
        /\ pc[c1] = "returned" /\ local[c1].result = <<TRUE>>
        /\ pc[c2] = "returned" /\ local[c2].result = <<FALSE>>
        /\ pc[c3] = "range" /\ local[c3].i = 2

----------------------------------------------------------------------
\* SpecAttr: requests as admission.NewAttributesRecord builds them, with
\* their operation and subresource, asked about under any sequence of up to
\* MaxRules rules.

Operations == {"CREATE", "UPDATE", "DELETE", "CONNECT"}
Subresources == {"", "status"}
AttrPoolResources == {"leases", "endpoints", "namespaces"}

AttributesRecords ==
    { [Kind        |-> [Kind |-> k],
       Resource    |-> [Group |-> g, Version |-> "v1", Resource |-> res],
       Subresource |-> sub,
       Operation   |-> op,
       Namespace   |-> ns,
       Name        |-> n] :
      g \in {"", "coordination.k8s.io"}, res \in AttrPoolResources,
      k \in {"Lease", "Endpoints", "Namespace"}, sub \in Subresources,
      op \in Operations, ns \in {"kube-system", "default"},
      n \in {"kube-scheduler", "default"} }

AttrPool ==
    { defaultExclusion[1], defaultExclusion[2], NamespaceRule, ClusterNamespaceRule }

InitAttr ==
    /\ env = "unset"
    /\ file = MissingFile
    /\ once = TRUE
    /\ loadedFrom = <<>>
    /\ exclusionRulesFromFile = <<>>
    /\ exclusionRules \in SeqsUpTo(AttrPool, MaxRules)
    /\ call = NoCall
    /\ mu = NoCaller
    /\ pc = <<>>
    /\ local = <<>>

NextAttr ==
    \/ \E a \in AttributesRecords : ShouldSkip(a)
    \/ Return

SpecAttr == InitAttr /\ [][NextAttr]_vars

====
